---- MODULE Spec2Model ----
(***************************************************************************)
(* Fluvius electricity integration: the polling coordinator, the browser   *)
(* automation that obtains a token, setup and unload of an entry           *)
(* (custom_components/fluvius_electricity_belgium/__init__.py), the setup  *)
(* flow (config_flow.py) and the three energy sensors (sensor.py).         *)
(*                                                                         *)
(* Encodings.  A bearer token is a natural number, 0 standing for None.    *)
(* Energy values are integers in units of 1/10000 kWh, so that rounding to *)
(* three decimals is a real operation.  Instants are integers in ticks of  *)
(* 1/TicksPerSecond second, so that strftime's truncation to whole seconds *)
(* is a real operation.  The argument None of time_window_hours is the     *)
(* integer 0 (both are falsy in `time_window_hours or DEFAULT`).           *)
(***************************************************************************)
EXTENDS Integers, Sequences, FiniteSets, TLC

VARIABLES
    username,           \* FluviusCoordinator._username
    password,           \* FluviusCoordinator._password
    time_window_hours,  \* FluviusCoordinator.time_window_hours
    bearer_token,       \* FluviusCoordinator._bearer_token (0 = None)
    last_data,          \* FluviusCoordinator._last_data
    data,               \* DataUpdateCoordinator.data: what the last successful update returned
    pc,                 \* where _async_update_data is: "Idle", "Acquiring" (awaiting the executor), "Fetching" (awaiting session.get)
    log,                \* the executor jobs and HTTP requests the running (or last) update issued, in order
    tokenAtStart,       \* _bearer_token as the running (or last) update found it on entry
    dataAtStart,        \* _last_data as the running (or last) update found it on entry
    acquired,           \* what the executor job of the running (or last) update returned or raised
    req,                \* the last HTTP request issued by session.get
    resp,               \* the last HTTP response handled
    result,             \* how the last finished update ended: what it raised, and the message
    cons_state,         \* last value read from FluviusConsumptionSensor.native_value
    inj_state,          \* last value read from FluviusInjectionSensor.native_value
    net_state,          \* last value read from FluviusNetSensor.native_value
    fpc,                \* where a call of _fetch_bearer_token_sync is
    driver,             \* its local `driver`: TRUE once webdriver.Chrome(...) has returned
    session,            \* the browser session: "none", "open", "closed"
    login_ok,           \* the wait for the post-login location has succeeded
    captured,           \* driver.requests as the scan found them
    fret,               \* what the call returns (0 = None, -1 = nothing yet)
    flow_step,          \* where FluviusConfigFlow.async_step_user is
    flow_input,         \* the user_input of the running (or last) submission
    flow_token,         \* its local `token` (0 = None)
    flow_errors,        \* errors["base"] of the form shown last ("" = none)
    flow_log,           \* the executor jobs and validation requests of the submission
    flow_resp,          \* what the validation request of the submission gave
    entry,              \* the data of the config entry the flow created
    setup_state,        \* the config entry: "not_loaded", "loaded", "unloaded"
    other_work,         \* an unrelated task on the event loop: its step count mod 2, and
                        \* the acquisitions that were under way when it took a step
    timer,              \* the wait that has been started last and the seconds it has left
    blocked             \* the wait whose awaited event never comes ("none" = no such wait)

fetchVars == <<fpc, driver, session, login_ok, captured, fret>>

flowVars == <<flow_step, flow_input, flow_token, flow_errors, flow_log, flow_resp, entry>>

liveVars == <<timer, blocked>>

extVars == <<fetchVars, flowVars, setup_state, other_work, liveVars>>

vars == <<username, password, time_window_hours, bearer_token, last_data, data, pc,
          log, tokenAtStart, dataAtStart, acquired, req, resp, result, cons_state, inj_state, net_state,
          fetchVars, flowVars, setup_state, other_work, liveVars>>

coordVars == <<username, password, time_window_hours, bearer_token, last_data, data, pc,
               log, tokenAtStart, dataAtStart, acquired, req, resp, result>>

sensorVars == <<cons_state, inj_state, net_state>>

-----------------------------------------------------------------------------
(* Bounds of the model *)

MaxTokens == 2          \* distinct Authorization values the browser flow can capture
MaxWindowArg == 2       \* time_window_hours arguments range over -MaxWindowArg..MaxWindowArg
MaxNow == 2             \* datetime.now() ranges over 0..MaxNow ticks
MaxDays == 1            \* day-buckets in a payload
MaxReadings == 2        \* readings in a day-bucket
MaxCaptured == 3        \* requests the browser session has captured
TickSeconds == 30       \* seconds that pass in one step of time

(* Program constants *)

DEFAULT_TIME_WINDOW_HOURS == 24
SecondsPerHour == 3600

PAGE_LOAD_TIMEOUT == 60     \* _fetch_bearer_token_sync(..., timeout: int = 60)

WAIT_TIMEOUT == 30          \* WebDriverWait(driver, 30)

SETTLE_DELAY == 5           \* time.sleep(5)

HTTP_TIMEOUT == 60          \* session.get(..., timeout=60)
TicksPerSecond == 2

-----------------------------------------------------------------------------
(* Payloads: the JSON body of a 200 response *)

NoneData == [kind |-> "None", days |-> <<>>]

ListData(ds) == [kind |-> "list", days |-> ds]

DcMissing == 0 - 1

\* A reading that is a dict: dc is the category code (DcMissing: no "dc" key),
\* vk says what reading.get("v") is: a number n, None (absent or null), or a
\* string float() rejects.
Reading(dc, vk, n) == [kind |-> "dict", dc |-> dc, vk |-> vk, n |-> n]

\* A reading that is not a dict (skipped by isinstance).
NonDictReading == [kind |-> "other", dc |-> DcMissing, vk |-> "None", n |-> 0]

\* A day-bucket with a "v" list.
Day(rs) == [kind |-> "dict", v |-> rs]

\* A day-bucket without a "v" key: day.get("v", []) is [].
DayNoV == [kind |-> "nov", v |-> <<>>]

\* An element of the payload that is not a dict: day.get raises AttributeError.
NonDictDay == [kind |-> "other", v |-> <<>>]

\* The payload of tests/test_coordinator.py: {dc=1, v=1.5}, {dc=2, v=0.6}.
SampleBody == ListData(<<Day(<<Reading(1, "num", 15000), Reading(2, "num", 6000)>>)>>)

\* A payload whose reading has no category code.
NoDcBody == ListData(<<Day(<<Reading(DcMissing, "num", 15000)>>)>>)

EmptyBody == ListData(<<>>)

\* The bodies the server answers with in the coordinator's specification.
Bodies == {SampleBody, NoDcBody, EmptyBody}

-----------------------------------------------------------------------------
(* FluviusCoordinator.__init__ *)

NoneStr == "None"

CredentialArgs == {NoneStr, "", "user"}

\* Python truthiness of a str | None.
Truthy(s) == s # NoneStr /\ s # ""

WindowArgs == (0 - MaxWindowArg)..MaxWindowArg

\* int(time_window_hours or DEFAULT_TIME_WINDOW_HOURS)
InitWindowHours(arg) == IF arg = 0 THEN DEFAULT_TIME_WINDOW_HOURS ELSE arg

NoReq == [Authorization |-> 0, since |-> 0, until |-> 0,
          historyFrom |-> [local |-> 0, off |-> 0],
          historyUntil |-> [local |-> 0, off |-> 0]]

NoResp == [exc |-> "-", status |-> 0, json |-> FALSE, body |-> NoneData]

NoAcquired == [exc |-> "-", token |-> 0 - 1]

NoResult == [raised |-> "-", msg |-> "-"]

Unread == [tag |-> "unread", val |-> 0]

NotReturned == 0 - 1

\* No call of _fetch_bearer_token_sync is under way.
FetchIdle ==
    /\ fpc = "idle"
    /\ driver = FALSE
    /\ session = "none"
    /\ login_ok = FALSE
    /\ captured = <<>>
    /\ fret = NotReturned

NoEntry == [k \in {} |-> ""]

NoInput == [username |-> "", password |-> "", ean |-> "", time_window_hours |-> 0]

NoValidation == [exc |-> "-", status |-> 0, json |-> FALSE]

\* The setup form has not been submitted.
FlowIdle ==
    /\ flow_step = "form"
    /\ flow_input = NoInput
    /\ flow_token = 0
    /\ flow_errors = ""
    /\ flow_log = <<>>
    /\ flow_resp = NoValidation
    /\ entry = NoEntry

NoOtherWork == [ticks |-> 0, during |-> {}]

NoTimer == [stage |-> "none", left |-> 0]

\* No wait has been started and every awaited event comes.
LiveIdle ==
    /\ timer = NoTimer
    /\ blocked = "none"

Init ==
    /\ username \in CredentialArgs
    /\ password \in CredentialArgs
    /\ \E arg \in WindowArgs : time_window_hours = InitWindowHours(arg)
    /\ bearer_token = 0
    /\ last_data = NoneData
    /\ data = NoneData
    /\ pc = "Idle"
    /\ log = <<>>
    /\ tokenAtStart = 0
    /\ dataAtStart = NoneData
    /\ acquired = NoAcquired
    /\ req = NoReq
    /\ resp = NoResp
    /\ result = NoResult
    /\ cons_state = Unread
    /\ inj_state = Unread
    /\ net_state = Unread
    /\ FetchIdle
    /\ FlowIdle
    /\ setup_state = "loaded"
    /\ other_work = NoOtherWork
    /\ LiveIdle

-----------------------------------------------------------------------------
(* FluviusCoordinator._async_update_data *)

Tokens == 1..MaxTokens

\* The UTC offsets dt.astimezone() can apply (Europe/Brussels: CET, CEST).
TzOffsets == {3600, 7200}

\* since = until - timedelta(hours=self.time_window_hours)
Since(until, hours) == until - hours * SecondsPerHour * TicksPerSecond

\* fmt(dt): dt.astimezone().strftime("%Y-%m-%dT%H:%M:%S.000%z"): the local
\* wall-clock time cut to whole seconds, followed by the UTC offset off.
fmt(dt, off) == [local |-> (dt \div TicksPerSecond) + off, off |-> off]

\* The instant (in seconds) a formatted timestamp denotes.
InstantOf(stamp) == stamp.local - stamp.off

\* params and headers of the request, for until = now.
Request(token, now, off1, off2) ==
    [Authorization |-> token,
     since         |-> Since(now, time_window_hours),
     until         |-> now,
     historyFrom   |-> fmt(Since(now, time_window_hours), off1),
     historyUntil  |-> fmt(now, off2)]

\* Variant without the `except Exception` clause: other exceptions escape.
Escapes_Unwrapped(exc, msg) == [raised |-> exc, msg |-> msg]

\* The two except clauses: UpdateFailed is re-raised as it is, every other
\* Exception becomes UpdateFailed("Error fetching Fluvius data: ...").
Escapes(exc, msg) ==
    IF exc = "UpdateFailed"
    THEN [raised |-> "UpdateFailed", msg |-> msg]
    ELSE [raised |-> "UpdateFailed", msg |-> "error_fetching"]

\* Variant that goes back to acquiring a token after a failure.
AfterFailure_Retry == "Acquiring"

\* A raise leaves _async_update_data: the update is over, nothing is retried.
AfterFailure == "Idle"

\* What entering a stage issues: an executor job, or an HTTP request.
Issue(l, stage) ==
    IF stage = "Acquiring" THEN Append(l, "acquire")
    ELSE IF stage = "Fetching" THEN Append(l, "request")
    ELSE l

\* Variant that never uses the cache.
HasCachedToken_Ignored(tok) == FALSE

\* `if self._bearer_token:` the cached token is used as it is.
HasCachedToken(tok) == tok # 0

\* Variant that looks at the username only.
CredentialsMissing_UsernameOnly(u, p) == ~Truthy(u)

\* `if not self._username or not self._password:`
CredentialsMissing(u, p) == ~Truthy(u) \/ ~Truthy(p)

\* Variant without the check of the executor job's result.
AcquisitionFailed_Unchecked(token) == FALSE

\* Variant with the check of the executor job's result inverted.
AcquisitionFailed_Inverted(token) == token # 0

\* `if not token:` after the executor job.
AcquisitionFailed(token) == token = 0

\* Variant that keeps the token on 401.
TokenAfterStatus_NeverClears(status, tok) == tok

\* Variant that clears the token on every status other than 200.
TokenAfterStatus_ClearsAlways(status, tok) == 0

\* The 401 branch: self._set_bearer_token(None) on 401 only.
TokenAfterStatus(status, tok) == IF status = 401 THEN 0 ELSE tok

\* Variant that clears the token on an exception or a parse error.
TokenAfterError_Clears(tok) == 0

\* An exception, or a JSON parse error, does not touch the token.
TokenAfterError(tok) == tok

\* Variant that appends the new day-buckets to the stored ones.
StoredPayload_Merged(old, body) ==
    IF old.kind = "list" /\ body.kind = "list" THEN ListData(old.days \o body.days) ELSE body

\* self._last_data = data: the new payload replaces the old one.
StoredPayload(old, body) == body

\* The update raises r.
Fail(l, r) ==
    /\ pc' = AfterFailure
    /\ log' = Issue(l, AfterFailure)
    /\ result' = r
    /\ UNCHANGED <<last_data, data>>

\* Lines 104-128: the window is computed and the request is issued with token.
Fetch(l, token) ==
    \E now \in 0..MaxNow, off1 \in TzOffsets, off2 \in TzOffsets :
        /\ pc' = "Fetching"
        /\ log' = Issue(l, "Fetching")
        /\ req' = Request(token, now, off1, off2)
        /\ UNCHANGED <<last_data, data, result>>

\* The scheduler starts an update: _async_get_bearer_token_if_needed up to its
\* first await.
UpdateStart ==
    /\ pc = "Idle"
    /\ tokenAtStart' = bearer_token
    /\ dataAtStart' = last_data
    /\ acquired' = NoAcquired
    /\ IF HasCachedToken(bearer_token)
       THEN /\ Fetch(<<>>, bearer_token)
            /\ UNCHANGED <<bearer_token, resp>>
       ELSE IF CredentialsMissing(username, password)
       THEN /\ Fail(<<>>, Escapes("UpdateFailed", "no_credentials"))
            /\ UNCHANGED <<bearer_token, req, resp>>
       ELSE /\ pc' = "Acquiring"
            /\ log' = Issue(<<>>, "Acquiring")
            /\ UNCHANGED <<bearer_token, last_data, data, req, resp, result>>
    /\ UNCHANGED <<username, password, time_window_hours, sensorVars, extVars>>

\* What the executor job can hand back: a token, None, or an exception raised
\* outside _fetch_bearer_token_sync's try block.
AcquireReturns ==
    {[exc |-> "-", token |-> t] : t \in {0} \cup Tokens}
        \cup {[exc |-> "RuntimeError", token |-> 0]}

\* The executor job is done: the rest of _async_get_bearer_token_if_needed, and
\* of _async_update_data up to session.get.
AcquireDone ==
    /\ pc = "Acquiring"
    /\ \E r \in AcquireReturns :
        /\ acquired' = r
        /\ IF r.exc # "-"
           THEN /\ Fail(log, Escapes(r.exc, "-"))
                /\ bearer_token' = TokenAfterError(bearer_token)
                /\ UNCHANGED req
           ELSE IF AcquisitionFailed(r.token)
           THEN /\ Fail(log, Escapes("UpdateFailed", "no_token"))
                /\ UNCHANGED <<bearer_token, req>>
           ELSE /\ bearer_token' = r.token
                /\ Fetch(log, r.token)
    /\ UNCHANGED <<username, password, time_window_hours, tokenAtStart, dataAtStart, resp,
                   sensorVars, extVars>>

Statuses == {200, 401, 403, 500}

TransportErrors == {"ClientError", "TimeoutError"}

\* What awaiting session.get and resp.text() can give: session.get raises (no
\* status), resp.text() raises (the status line was read, the body was not), or
\* a response with its body, whose json() parses or does not.
Responses ==
    {[exc |-> e, status |-> s, json |-> FALSE, body |-> NoneData] :
        e \in TransportErrors, s \in {0} \cup Statuses}
    \cup {[exc |-> "-", status |-> s, json |-> FALSE, body |-> NoneData] : s \in Statuses}
    \cup {[exc |-> "-", status |-> 200, json |-> TRUE, body |-> b] : b \in Bodies}

\* The response, or the exception, arrives: lines 128-148.
Respond ==
    /\ pc = "Fetching"
    /\ \E r \in Responses :
        /\ resp' = r
        /\ IF r.exc # "-"
           THEN /\ Fail(log, Escapes(r.exc, "-"))
                /\ bearer_token' = TokenAfterError(bearer_token)
           ELSE IF r.status # 200
           THEN /\ bearer_token' = TokenAfterStatus(r.status, bearer_token)
                /\ Fail(log, Escapes("UpdateFailed", "http_status"))
           ELSE IF ~r.json
           THEN /\ Fail(log, Escapes("UpdateFailed", "invalid_json"))
                /\ bearer_token' = TokenAfterError(bearer_token)
           ELSE /\ last_data' = StoredPayload(last_data, r.body)
                /\ data' = last_data'
                /\ result' = [raised |-> "-", msg |-> "ok"]
                /\ pc' = "Idle"
                /\ UNCHANGED <<bearer_token, log>>
    /\ UNCHANGED <<username, password, time_window_hours, tokenAtStart, dataAtStart, acquired,
                   req, sensorVars, extVars>>

Next == UpdateStart \/ AcquireDone \/ Respond

Spec == Init /\ [][Next]_vars

-----------------------------------------------------------------------------
(* sensor.py: the three native_value properties *)

NoneValue == [tag |-> "None", val |-> 0]

Number(n) == [tag |-> "num", val |-> n]

\* round(x, 3) on a value in units of 1/10000: to the nearest multiple of 10,
\* a tie going to the even thousandth.
Round3(x) ==
    LET q == x \div 10
        r == x % 10
    IN  IF r < 5 THEN 10 * q
        ELSE IF r > 5 THEN 10 * (q + 1)
        ELSE IF q % 2 = 0 THEN 10 * q ELSE 10 * (q + 1)

\* reading.get("dc", default)
GetDc(reading, default) == IF reading.dc = DcMissing THEN default ELSE reading.dc

\* What one pass of a loop body does: err is "an exception was raised", cons
\* and inj are what is added to the totals.
Term(e, c, i) == [err |-> e, cons |-> c, inj |-> i]

Skip == Term(FALSE, 0, 0)

Raise == Term(TRUE, 0, 0)

Plus(a, b) == Term(a.err \/ b.err, a.cons + b.cons, a.inj + b.inj)

\* float(val)
Float(reading, c, i) ==
    IF reading.vk = "num" THEN Term(FALSE, c * reading.n, i * reading.n) ELSE Raise

\* Variant that adds every reading, whatever its category code.
ConsumptionTerm_AnyCode(reading) ==
    IF reading.kind # "dict" THEN Skip
    ELSE IF reading.vk = "None" THEN Skip
    ELSE Float(reading, 1, 0)

\* FluviusConsumptionSensor: the body of the inner loop.
ConsumptionTerm(reading) ==
    IF reading.kind # "dict" THEN Skip
    ELSE IF reading.vk = "None" THEN Skip
    ELSE IF GetDc(reading, 1) = 1 THEN Float(reading, 1, 0)
    ELSE Skip

\* FluviusInjectionSensor: the body of the inner loop.
InjectionTerm(reading) ==
    IF reading.kind # "dict" THEN Skip
    ELSE IF reading.vk = "None" THEN Skip
    ELSE IF GetDc(reading, 0) = 2 THEN Float(reading, 0, 1)
    ELSE Skip

\* FluviusNetSensor: the body of the inner loop.
NetTerm(reading) ==
    IF reading.kind # "dict" THEN Skip
    ELSE IF reading.vk = "None" THEN Skip
    ELSE IF GetDc(reading, 0) = 1 THEN Float(reading, 1, 0)
    ELSE IF GetDc(reading, 0) = 2 THEN Float(reading, 0, 1)
    ELSE Skip

ReadingTerm(kind, reading) ==
    CASE kind = "consumption" -> ConsumptionTerm(reading)
      [] kind = "injection"   -> InjectionTerm(reading)
      [] OTHER                -> NetTerm(reading)

RECURSIVE SumReadings(_, _)
\* for reading in day.get("v", []): ...
SumReadings(kind, rs) ==
    IF rs = <<>> THEN Skip
    ELSE Plus(ReadingTerm(kind, Head(rs)), SumReadings(kind, Tail(rs)))

RECURSIVE SumDays(_, _)
\* for day in data: ...  (day.get raises on a day that is no dict)
SumDays(kind, ds) ==
    IF ds = <<>> THEN Skip
    ELSE Plus(IF Head(ds).kind = "other" THEN Raise ELSE SumReadings(kind, Head(ds).v),
              SumDays(kind, Tail(ds)))

\* Variant without the `if not data: return None` guard.
NoData_Unchecked(d) == FALSE

\* `data = self.coordinator.data or []` followed by `if not data:`
NoData(d) == d.kind = "None" \/ d.days = <<>>

\* The three properties: None without data or on an exception, else the
\* rounded total.
NativeValue(kind, d) ==
    IF NoData(d) THEN NoneValue
    ELSE LET t == SumDays(kind, d.days)
         IN  IF t.err THEN NoneValue
             ELSE CASE kind = "consumption" -> Number(Round3(t.cons))
                    [] kind = "injection"   -> Number(Round3(t.inj))
                    [] OTHER                -> Number(Round3(t.cons - t.inj))

ConsumptionValue(d) == NativeValue("consumption", d)

InjectionValue(d) == NativeValue("injection", d)

NetValue(d) == NativeValue("net", d)

\* Variant that keeps the total of the previous read and adds to it.
ReadConsumption_Accumulates ==
    /\ cons_state' =
            IF cons_state.tag = "num" /\ ConsumptionValue(data).tag = "num"
            THEN Number(cons_state.val + ConsumptionValue(data).val)
            ELSE ConsumptionValue(data)
    /\ UNCHANGED <<coordVars, inj_state, net_state, extVars>>

ReadConsumption ==
    /\ cons_state' = ConsumptionValue(data)
    /\ UNCHANGED <<coordVars, inj_state, net_state, extVars>>

ReadInjection ==
    /\ inj_state' = InjectionValue(data)
    /\ UNCHANGED <<coordVars, cons_state, net_state, extVars>>

ReadNet ==
    /\ net_state' = NetValue(data)
    /\ UNCHANGED <<coordVars, cons_state, inj_state, extVars>>

\* The readings a payload is made of.
ReadingSet ==
    { Reading(1, "num", 15004), Reading(2, "num", 6006), Reading(DcMissing, "num", 4005),
      Reading(2, "str", 0), Reading(3, "num", 7000) }

SeqsUpTo(S, n) == UNION {[1..k -> S] : k \in 0..n}

DaySet == {DayNoV, NonDictDay} \cup {Day(rs) : rs \in SeqsUpTo(ReadingSet, MaxReadings)}

\* Two day-buckets, the second with an entry that is no dict and a reading
\* whose value is null.
TwoDayBody ==
    ListData(<<Day(<<Reading(1, "num", 15004), Reading(2, "num", 6006)>>),
               Day(<<NonDictReading, Reading(1, "None", 0), Reading(1, "num", 15004)>>)>>)

\* Readings whose values are zero.
ZeroBody == ListData(<<Day(<<Reading(1, "num", 0), Reading(2, "num", 0)>>)>>)

\* None (nothing stored yet, or a JSON null), and the lists of day-buckets.
Payloads ==
    {NoneData, TwoDayBody, ZeroBody} \cup Bodies
        \cup {ListData(ds) : ds \in SeqsUpTo(DaySet, MaxDays)}

\* The coordinator after a first update that stored payload d.
InitSensor ==
    /\ username = "user"
    /\ password = "user"
    /\ time_window_hours = DEFAULT_TIME_WINDOW_HOURS
    /\ bearer_token = MaxTokens
    /\ data \in Payloads
    /\ last_data = data
    /\ pc = "Idle"
    /\ log = <<"acquire", "request">>
    /\ tokenAtStart = 0
    /\ dataAtStart = NoneData
    /\ acquired = [exc |-> "-", token |-> bearer_token]
    /\ req = Request(bearer_token, 0, 3600, 3600)
    /\ resp = [exc |-> "-", status |-> 200, json |-> TRUE, body |-> data]
    /\ result = [raised |-> "-", msg |-> "ok"]
    /\ cons_state = Unread
    /\ inj_state = Unread
    /\ net_state = Unread
    /\ FetchIdle
    /\ FlowIdle
    /\ setup_state = "loaded"
    /\ other_work = NoOtherWork
    /\ LiveIdle

NextSensor == ReadConsumption \/ ReadInjection \/ ReadNet

SensorSpec == InitSensor /\ [][NextSensor]_vars

-----------------------------------------------------------------------------
(* _fetch_bearer_token_sync: the browser automation, one action per step *)

\* A captured request: whether "/api/" occurs in its URL, its Authorization
\* header (NoHeader = absent, BasicAuth = another scheme, k > 0 = the text
\* "Bearer" followed by token k), and whether reading it raises.
NoHeader == 0

BasicAuth == 0 - 1

Captured(api, auth, bad) == [api |-> api, auth |-> auth, bad |-> bad]

CapturedKinds ==
    {Captured(TRUE, k, FALSE) : k \in Tokens}
        \cup {Captured(TRUE, NoHeader, FALSE), Captured(TRUE, BasicAuth, FALSE),
              Captured(FALSE, 1, FALSE), Captured(TRUE, NoHeader, TRUE)}

CapturedSeqs == UNION {[1..n -> CapturedKinds] : n \in 0..MaxCaptured}

StartsWithBearer(auth) == auth > 0

\* The test of one request in the loop; a raising read is skipped by `continue`.
Qualifies(r) ==
    /\ ~r.bad
    /\ r.api
    /\ r.auth # NoHeader
    /\ StartsWithBearer(r.auth)

RECURSIVE Scan_Last(_)
\* Variant: the loop runs to its end and the last hit wins.
Scan_Last(reqs) ==
    IF reqs = <<>> THEN 0
    ELSE IF Qualifies(reqs[Len(reqs)]) THEN reqs[Len(reqs)].auth
    ELSE Scan_Last(SubSeq(reqs, 1, Len(reqs) - 1))

RECURSIVE Scan(_)
\* The loop over driver.requests: the header of the first hit, None after the loop.
Scan(reqs) ==
    IF reqs = <<>> THEN 0
    ELSE IF Qualifies(Head(reqs)) THEN Head(reqs).auth
    ELSE Scan(Tail(reqs))

\* Variant: the session is quit only where a token is returned.
SessionAfterExit_OnlyOnSuccess(drv, sess, ret) == IF drv /\ ret # 0 THEN "closed" ELSE sess

\* The finally block.  "closed" says driver.quit() has been called on the
\* session; an exception of quit() itself is swallowed.
SessionAfterExit(drv, sess, ret) == IF drv THEN "closed" ELSE sess

fetchRest == <<coordVars, sensorVars, flowVars, setup_state, other_work, liveVars>>

\* A step of the try block that either completes or raises into `except`.
FetchStep(from, to) ==
    /\ fpc = from
    /\ \/ fpc' = to /\ UNCHANGED fret
       \/ fpc' = "finally" /\ fret' = 0

\* A step wrapped in its own try/except/pass: it goes on either way.
FetchBestEffort(from, to) ==
    /\ fpc = from
    /\ fpc' = to
    /\ UNCHANGED fret

FetchImport ==
    /\ fpc = "import"
    /\ \/ fpc' = "launch" /\ UNCHANGED fret
       \/ fpc' = "returned" /\ fret' = 0
    /\ UNCHANGED <<driver, session, login_ok, captured, fetchRest>>

FetchLaunch ==
    /\ fpc = "launch"
    /\ \/ fpc' = "portal" /\ driver' = TRUE /\ session' = "open" /\ UNCHANGED fret
       \/ fpc' = "finally" /\ fret' = 0 /\ UNCHANGED <<driver, session>>
    /\ UNCHANGED <<login_ok, captured, fetchRest>>

FetchOpenPortal ==
    /\ FetchStep("portal", "account")
    /\ UNCHANGED <<driver, session, login_ok, captured, fetchRest>>

FetchAccountType ==
    /\ FetchBestEffort("account", "email")
    /\ UNCHANGED <<driver, session, login_ok, captured, fetchRest>>

FetchEmail ==
    /\ FetchStep("email", "submit")
    /\ UNCHANGED <<driver, session, login_ok, captured, fetchRest>>

FetchSubmit ==
    /\ FetchStep("submit", "login")
    /\ UNCHANGED <<driver, session, login_ok, captured, fetchRest>>

FetchLoginWait ==
    /\ FetchStep("login", "cookie")
    /\ login_ok' = (fpc' = "cookie")
    /\ UNCHANGED <<driver, session, captured, fetchRest>>

FetchCookie ==
    /\ FetchBestEffort("cookie", "usage")
    /\ UNCHANGED <<driver, session, login_ok, captured, fetchRest>>

FetchOpenUsage ==
    /\ FetchStep("usage", "scan")
    /\ captured' \in CapturedSeqs
    /\ UNCHANGED <<driver, session, login_ok, fetchRest>>

FetchScan ==
    /\ fpc = "scan"
    /\ fpc' = "finally"
    /\ \/ fret' = Scan(captured)
       \/ fret' = 0
    /\ UNCHANGED <<driver, session, login_ok, captured, fetchRest>>

FetchFinally ==
    /\ fpc = "finally"
    /\ session' = SessionAfterExit(driver, session, fret)
    /\ fpc' = "returned"
    /\ UNCHANGED <<driver, login_ok, captured, fret, fetchRest>>

InitFetch ==
    /\ username = "user"
    /\ password = "user"
    /\ time_window_hours = DEFAULT_TIME_WINDOW_HOURS
    /\ bearer_token = 0
    /\ last_data = NoneData
    /\ data = NoneData
    /\ pc = "Idle"
    /\ log = <<>>
    /\ tokenAtStart = 0
    /\ dataAtStart = NoneData
    /\ acquired = NoAcquired
    /\ req = NoReq
    /\ resp = NoResp
    /\ result = NoResult
    /\ cons_state = Unread
    /\ inj_state = Unread
    /\ net_state = Unread
    /\ fpc = "import"
    /\ driver = FALSE
    /\ session = "none"
    /\ login_ok = FALSE
    /\ captured = <<>>
    /\ fret = NotReturned
    /\ FlowIdle
    /\ setup_state = "loaded"
    /\ other_work = NoOtherWork
    /\ LiveIdle

NextFetch ==
    \/ FetchImport
    \/ FetchLaunch
    \/ FetchOpenPortal
    \/ FetchAccountType
    \/ FetchEmail
    \/ FetchSubmit
    \/ FetchLoginWait
    \/ FetchCookie
    \/ FetchOpenUsage
    \/ FetchScan
    \/ FetchFinally

FetchSpec == InitFetch /\ [][NextFetch]_vars

-----------------------------------------------------------------------------
(* config_flow.py: FluviusConfigFlow.async_step_user and _validate_token;
   __init__.py: async_setup_entry *)

\* str.strip() on the texts the form can carry.
Strip(s) ==
    CASE s = " " -> ""
      [] s = " 5414 " -> "5414"
      [] s = " user " -> "user"
      [] OTHER -> s

FlowInputs ==
    [username : {"", " user "}, password : {"pw"}, ean : {"", " ", " 5414 "},
     time_window_hours : 1..MaxWindowArg]

\* The text of an Authorization header: the scheme followed by the token.
AuthHeader(t) == "Bearer" \o ToString(t)

\* Variant: the token obtained by the flow is stored under CONF_BEARER_TOKEN.
EntryData_WithToken(input, token) ==
    [name |-> "Fluvius Electricity",
     username |-> Strip(input.username),
     password |-> Strip(input.password),
     ean |-> Strip(input.ean),
     meter_id |-> "",
     api_base |-> "https://mijn.fluvius.be",
     granularity |-> "1",
     time_window_hours |-> input.time_window_hours,
     bearer_token |-> AuthHeader(token)]

\* The `data` dict of lines 135-144.
EntryData(input, token) ==
    [name |-> "Fluvius Electricity",
     username |-> Strip(input.username),
     password |-> Strip(input.password),
     ean |-> Strip(input.ean),
     meter_id |-> "",
     api_base |-> "https://mijn.fluvius.be",
     granularity |-> "1",
     time_window_hours |-> input.time_window_hours]

\* What the validation request can give: session.get raises, or a status with
\* a body that json() parses or does not.
Validations ==
    {[exc |-> e, status |-> 0, json |-> FALSE] : e \in TransportErrors}
        \cup {[exc |-> "-", status |-> st, json |-> j] : st \in Statuses, j \in BOOLEAN}

\* Variant: any answered request validates the token.
ValidateToken_AnyStatus(token, r) == token # 0 /\ r.exc = "-"

\* _validate_token's return value.
ValidateToken(token, r) ==
    /\ token # 0
    /\ r.exc = "-"
    /\ r.status = 200
    /\ r.json

\* The worker the token acquisition is handed to: "executor" is
\* hass.async_add_executor_job, "loop" would be a direct call.
CoordinatorAcquiresOn_Loop == "loop"

CoordinatorAcquiresOn == "executor"

FlowAcquiresOn == "executor"

\* The acquisitions under way, and whether one of them holds the event loop.
AcquisitionsRunning ==
    {w \in {"coordinator", "flow"} :
        \/ w = "coordinator" /\ pc = "Acquiring"
        \/ w = "flow" /\ flow_step = "acquiring"}

LoopBlocked ==
    \/ "coordinator" \in AcquisitionsRunning /\ CoordinatorAcquiresOn = "loop"
    \/ "flow" \in AcquisitionsRunning /\ FlowAcquiresOn = "loop"

flowRest == <<coordVars, sensorVars, fetchVars, setup_state, other_work, liveVars>>

\* The form is opened: user_input is None (lines 101-103).
FlowOpen ==
    /\ flow_step = "form"
    /\ entry = NoEntry
    /\ flow_input' = NoInput
    /\ flow_token' = 0
    /\ flow_errors' = ""
    /\ flow_log' = <<>>
    /\ flow_resp' = NoValidation
    /\ UNCHANGED <<flow_step, entry, flowRest>>

\* The form is submitted: lines 101-119, up to the await of the executor job.
FlowSubmit ==
    /\ flow_step = "form"
    /\ entry = NoEntry
    /\ \E input \in FlowInputs :
        /\ flow_input' = input
        /\ IF Strip(input.ean) = ""
           THEN /\ flow_errors' = "missing_ean"
                /\ flow_log' = <<>>
                /\ UNCHANGED flow_step
           ELSE /\ flow_errors' = ""
                /\ flow_log' = <<"acquire">>
                /\ flow_step' = "acquiring"
    /\ flow_token' = 0
    /\ flow_resp' = NoValidation
    /\ UNCHANGED <<entry, flowRest>>

\* The executor job returns: lines 119-124 and _validate_token up to its await.
FlowAcquireDone ==
    /\ flow_step = "acquiring"
    /\ \E t \in {0} \cup Tokens :
        /\ flow_token' = t
        /\ IF t = 0
           THEN /\ flow_errors' = "invalid_credentials_or_2fa"
                /\ flow_step' = "form"
                /\ UNCHANGED flow_log
           ELSE /\ flow_step' = "validating"
                /\ flow_log' = Append(flow_log, "validate")
                /\ UNCHANGED flow_errors
    /\ UNCHANGED <<flow_input, flow_resp, entry, flowRest>>

\* The validation request is answered: lines 82-91 and 125-145.
FlowValidateDone ==
    /\ flow_step = "validating"
    /\ \E r \in Validations :
        /\ flow_resp' = r
        /\ IF ValidateToken(flow_token, r)
           THEN /\ entry' = EntryData(flow_input, flow_token)
                /\ flow_step' = "created"
                /\ UNCHANGED flow_errors
           ELSE /\ flow_errors' = "invalid_credentials_or_token"
                /\ flow_step' = "form"
                /\ UNCHANGED entry
    /\ UNCHANGED <<flow_input, flow_token, flow_log, flowRest>>

\* async_setup_entry builds the coordinator from the entry (the options are
\* empty); the first refresh is the first update of the coordinator.  The flow
\* has ended with the entry, and its locals are gone.
SetupEntry ==
    /\ entry # NoEntry
    /\ setup_state = "not_loaded"
    /\ username' = entry.username
    /\ password' = entry.password
    /\ time_window_hours' = InitWindowHours(entry.time_window_hours)
    /\ bearer_token' = 0
    /\ last_data' = NoneData
    /\ data' = NoneData
    /\ setup_state' = "loaded"
    /\ flow_input' = NoInput
    /\ flow_token' = 0
    /\ flow_log' = <<>>
    /\ flow_resp' = NoValidation
    /\ UNCHANGED <<pc, log, tokenAtStart, dataAtStart, acquired, req, resp, result,
                   sensorVars, fetchVars, flow_step, flow_errors, entry, other_work, liveVars>>

\* A step of an unrelated task of the event loop.
OtherWork ==
    /\ ~LoopBlocked
    /\ other_work' = [ticks |-> 1 - other_work.ticks,
                      during |-> other_work.during \cup AcquisitionsRunning]
    /\ UNCHANGED <<coordVars, sensorVars, fetchVars, flowVars, setup_state, liveVars>>

InitFlow ==
    /\ username = NoneStr
    /\ password = NoneStr
    /\ time_window_hours = DEFAULT_TIME_WINDOW_HOURS
    /\ bearer_token = 0
    /\ last_data = NoneData
    /\ data = NoneData
    /\ pc = "Idle"
    /\ log = <<>>
    /\ tokenAtStart = 0
    /\ dataAtStart = NoneData
    /\ acquired = NoAcquired
    /\ req = NoReq
    /\ resp = NoResp
    /\ result = NoResult
    /\ cons_state = Unread
    /\ inj_state = Unread
    /\ net_state = Unread
    /\ FetchIdle
    /\ FlowIdle
    /\ setup_state = "not_loaded"
    /\ other_work = NoOtherWork
    /\ LiveIdle

NextFlow ==
    \/ FlowOpen
    \/ FlowSubmit
    \/ FlowAcquireDone
    \/ FlowValidateDone
    \/ SetupEntry
    \/ setup_state = "loaded" /\ UpdateStart
    \/ setup_state = "loaded" /\ AcquireDone
    \/ setup_state = "loaded" /\ Respond
    \/ OtherWork

FlowSpec == InitFlow /\ [][NextFlow]_vars

-----------------------------------------------------------------------------
(* __init__.py: async_unload_entry *)

\* The entry is unloaded: the sensor platform goes and the coordinator is
\* popped from hass.data.  Nothing of the coordinator is called: a cycle that
\* waits for the executor job or for the response stays as it is.
Unload ==
    /\ setup_state = "loaded"
    /\ setup_state' = "unloaded"
    /\ UNCHANGED <<coordVars, sensorVars, fetchVars, flowVars, other_work, liveVars>>

InitTeardown == Init

\* The scheduler starts updates of a loaded entry only; a cycle that is in
\* flight goes on when its await completes.
NextTeardown ==
    \/ setup_state = "loaded" /\ UpdateStart
    \/ AcquireDone
    \/ Respond
    \/ Unload

TeardownSpec == InitTeardown /\ [][NextTeardown]_vars

-----------------------------------------------------------------------------
(* One update with its executor job, in time: every wait has a timeout *)

\* The waits of an update, and the one whose awaited event never comes.
BlockedWaits == {"none", "portal", "account", "email", "login", "cookie", "usage", "http"}

\* The seconds a step can wait before it gives up; 0 for a step that does
\* not wait.
WaitOf(stage) ==
    CASE stage = "portal" -> PAGE_LOAD_TIMEOUT
      [] stage \in {"account", "email", "login", "cookie"} -> WAIT_TIMEOUT
      [] stage = "usage" -> PAGE_LOAD_TIMEOUT + SETTLE_DELAY
      [] stage = "http" -> HTTP_TIMEOUT
      [] OTHER -> 0

\* The step the update is at.
CurrentWait ==
    IF pc = "Acquiring" THEN fpc
    ELSE IF pc = "Fetching" THEN "http"
    ELSE "none"

\* Variant: a wait never gives up.
TimedOut_Never(left) == FALSE

\* The wait gives up (TimeoutException, page-load timeout, TimeoutError) when
\* its time is used up.
TimedOut(left) == left = 0

\* The step at `stage` can end by giving up.
Expired(stage) ==
    \/ WaitOf(stage) = 0
    \/ timer.stage = stage /\ TimedOut(timer.left)

\* A step that raises on its timeout: it completes only if its event comes,
\* and raises only when it has waited its time.
StepEnds(stage) == IF fpc' = "finally" THEN Expired(stage) ELSE blocked # stage

\* A best-effort step goes on when its event comes or its wait has timed out.
BestEffortEnds(stage) == blocked # stage \/ Expired(stage)

\* session.get and resp.text(): TimeoutError when the time is used up, another
\* outcome only if the server answers.
HttpEnds == IF resp'.exc = "TimeoutError" THEN Expired("http") ELSE blocked # "http"

\* The step starts its wait.
WaitBegins ==
    /\ WaitOf(CurrentWait) > 0
    /\ timer.stage # CurrentWait
    /\ timer' = [stage |-> CurrentWait, left |-> WaitOf(CurrentWait)]
    /\ UNCHANGED <<coordVars, sensorVars, fetchVars, flowVars, setup_state, other_work, blocked>>

\* Time passes while the step waits.
Tick ==
    /\ timer.stage = CurrentWait
    /\ timer.left > 0
    /\ timer' = [timer EXCEPT !.left = IF @ > TickSeconds THEN @ - TickSeconds ELSE 0]
    /\ UNCHANGED <<coordVars, sensorVars, fetchVars, flowVars, setup_state, other_work, blocked>>

\* The executor starts _fetch_bearer_token_sync for the update that awaits it.
JobStart ==
    /\ pc = "Acquiring"
    /\ fpc = "idle"
    /\ fpc' = "import"
    /\ UNCHANGED <<driver, session, login_ok, captured, fret, fetchRest>>

\* The coordinator before an update, with or without a cached token.
InitLive ==
    /\ username \in {"", "user"}
    /\ password = "user"
    /\ time_window_hours = DEFAULT_TIME_WINDOW_HOURS
    /\ bearer_token \in {0} \cup Tokens
    /\ last_data \in {NoneData, SampleBody}
    /\ data = last_data
    /\ pc = "Idle"
    /\ log = <<>>
    /\ tokenAtStart = 0
    /\ dataAtStart = NoneData
    /\ acquired = NoAcquired
    /\ req = NoReq
    /\ resp = NoResp
    /\ result = NoResult
    /\ cons_state = Unread
    /\ inj_state = Unread
    /\ net_state = Unread
    /\ FetchIdle
    /\ FlowIdle
    /\ setup_state = "loaded"
    /\ other_work = NoOtherWork
    /\ timer = NoTimer
    /\ blocked \in BlockedWaits

\* The steps of an update that has started.
LiveProgress ==
    \/ JobStart
    \/ FetchImport
    \/ FetchLaunch
    \/ FetchOpenPortal /\ StepEnds("portal")
    \/ FetchAccountType /\ BestEffortEnds("account")
    \/ FetchEmail /\ StepEnds("email")
    \/ FetchSubmit
    \/ FetchLoginWait /\ StepEnds("login")
    \/ FetchCookie /\ BestEffortEnds("cookie")
    \/ FetchOpenUsage /\ StepEnds("usage") /\ Len(captured') <= 1
    \/ FetchScan
    \/ FetchFinally
    \/ fpc = "returned" /\ AcquireDone /\ acquired' = [exc |-> "-", token |-> fret]
    \/ Respond /\ HttpEnds
    \/ WaitBegins
    \/ Tick

\* One update of the coordinator.
NextLive ==
    \/ result = NoResult /\ UpdateStart
    \/ LiveProgress

\* Time passes, the executor thread runs its code, and the event loop resumes
\* a coroutine whose await is over.
LiveSpec == InitLive /\ [][NextLive]_vars /\ WF_vars(LiveProgress)

-----------------------------------------------------------------------------
(* Properties *)

Range(f) == {f[i] : i \in DOMAIN f}

\* An update has been started on this coordinator.
Started == pc # "Idle" \/ result # NoResult

\* The step handles a response whose status line and body were read.
Received(statuses) == pc = "Fetching" /\ resp'.exc = "-" /\ resp'.status \in statuses

\* The last finished update ended on a response with status 401.
EndedOn401 ==
    /\ result = [raised |-> "UpdateFailed", msg |-> "http_status"]
    /\ resp.exc = "-"
    /\ resp.status = 401

\* C1: a response with status 401 clears the cached token in the step that
\* handles it and that update fails; the update started next launches token
\* acquisition, and issues no HTTP request, in its first step.
C1_Reacquire ==
    [][ /\ Received({401}) =>
            /\ bearer_token' = 0
            /\ pc' = "Idle"
            /\ result'.raised = "UpdateFailed"
        /\ (pc = "Idle" /\ EndedOn401) =>
            /\ pc' = "Acquiring"
            /\ log' = <<"acquire">>
            /\ req' = req ]_vars

\* C1 witness: the update after a 401 is waiting for the executor job, with an
\* empty cache and no request issued.
C1_Witness ==
    /\ pc = "Acquiring"
    /\ EndedOn401
    /\ bearer_token = 0
    /\ tokenAtStart = 0
    /\ log = <<"acquire">>

\* C2: a response with a status other than 200 and 401 fails the update and
\* leaves the cached token as it was.
C2_TokenKept ==
    [][ Received(Statuses \ {200, 401}) =>
            /\ bearer_token' = bearer_token
            /\ pc' = "Idle"
            /\ result' = [raised |-> "UpdateFailed", msg |-> "http_status"] ]_vars

\* C2 witness: an update ended on a 500 and the token is still cached.
C2_Witness ==
    /\ pc = "Idle"
    /\ result = [raised |-> "UpdateFailed", msg |-> "http_status"]
    /\ resp.exc = "-"
    /\ resp.status = 500
    /\ bearer_token # 0
    /\ bearer_token = req.Authorization

\* C3 as stated: token acquisition is invoked in an update iff the cache was
\* empty when the update started; the cache of a new coordinator is empty; an
\* update that starts with a cached token sends that token and acquires nothing.
C3_AcquireIffEmpty ==
    /\ ~Started => bearer_token = 0
    /\ Started =>
        /\ ("acquire" \in Range(log)) <=> (tokenAtStart = 0)
        /\ tokenAtStart # 0 => (log = <<"request">> /\ req.Authorization = tokenAtStart)

\* C3 amended: token acquisition is invoked in an update iff the cache was
\* empty when the update started and a username and a password are configured.
C3_AcquireIffEmptyWithCredentials ==
    /\ ~Started => bearer_token = 0
    /\ Started =>
        /\ ("acquire" \in Range(log)) <=>
                (tokenAtStart = 0 /\ ~CredentialsMissing(username, password))
        /\ tokenAtStart # 0 => (log = <<"request">> /\ req.Authorization = tokenAtStart)

\* C3 witness: an update that started with a cached token has sent it, without
\* an executor job.
C3_Witness ==
    /\ pc = "Fetching"
    /\ tokenAtStart # 0
    /\ log = <<"request">>
    /\ req.Authorization = tokenAtStart

\* C4: when the executor job returns no token the update fails in that step,
\* no HTTP request is issued, the cache stays empty and the payload stays.
C4_AcquisitionFailure ==
    [][ (pc = "Acquiring" /\ acquired'.exc = "-" /\ acquired'.token = 0) =>
            /\ pc' = "Idle"
            /\ result'.raised = "UpdateFailed"
            /\ log' = <<"acquire">>
            /\ req' = req
            /\ bearer_token = 0 /\ bearer_token' = 0
            /\ last_data' = last_data /\ last_data' = dataAtStart
            /\ data' = data ]_vars

\* C4 witness: an acquisition failed while a payload of an earlier update was
\* stored.
C4_Witness ==
    /\ pc = "Idle"
    /\ acquired = [exc |-> "-", token |-> 0]
    /\ result = [raised |-> "UpdateFailed", msg |-> "no_token"]
    /\ log = <<"acquire">>
    /\ bearer_token = 0
    /\ last_data = SampleBody

\* C5: a 200 response whose body is no JSON, and an exception of session.get
\* or resp.text(), fail the update and leave the cached token as it was.
C5_TokenKeptOnError ==
    [][ (pc = "Fetching" /\ (resp'.exc # "-" \/ (resp'.status = 200 /\ ~resp'.json))) =>
            /\ bearer_token' = bearer_token
            /\ pc' = "Idle"
            /\ result'.raised = "UpdateFailed" ]_vars

\* C5 witness: the request timed out and the token is still cached.
C5_Witness ==
    /\ pc = "Idle"
    /\ resp.exc = "TimeoutError"
    /\ result = [raised |-> "UpdateFailed", msg |-> "error_fetching"]
    /\ bearer_token # 0
    /\ bearer_token = req.Authorization

\* C6: an update issues at most one executor job and at most one HTTP request,
\* the job first; a failed update is over (nothing is pending).
C6_NoRetry ==
    /\ log \in {<<>>, <<"acquire">>, <<"request">>, <<"acquire", "request">>}
    /\ pc = "Acquiring" => log = <<"acquire">>
    /\ pc = "Fetching" => log \in {<<"request">>, <<"acquire", "request">>}
    /\ (Started /\ pc = "Idle") => result # NoResult

\* C6 witness: an update acquired a token, sent its request, failed, and the
\* coordinator is idle.
C6_Witness ==
    /\ pc = "Idle"
    /\ result.raised = "UpdateFailed"
    /\ log = <<"acquire", "request">>

\* C7: an update ends by returning or by raising UpdateFailed, whatever was
\* raised inside it; it returns only on a 200 response with a JSON body.
C7_OnlyUpdateFailed ==
    /\ result.raised \in {"-", "UpdateFailed"}
    /\ (Started /\ pc = "Idle" /\ result.raised = "-") =>
            /\ result.msg = "ok"
            /\ resp.exc = "-" /\ resp.status = 200 /\ resp.json

\* C7 witness: an exception of the HTTP client has reached the scheduler as
\* UpdateFailed.
C7_Witness ==
    /\ pc = "Idle"
    /\ resp.exc = "ClientError"
    /\ result = [raised |-> "UpdateFailed", msg |-> "error_fetching"]

\* C8: the stored payload changes only in the step that handles a 200
\* response with a JSON body; it then is that body, which is also what the
\* update returns; a failing update leaves it as it was.
C8_PayloadReplaced ==
    [][ /\ (last_data' # last_data \/ data' # data) =>
            (Received({200}) /\ resp'.json)
        /\ (Received({200}) /\ resp'.json) =>
            /\ last_data' = resp'.body
            /\ data' = resp'.body
            /\ result' = [raised |-> "-", msg |-> "ok"]
        /\ (pc' = "Idle" /\ result'.raised = "UpdateFailed") =>
            /\ last_data' = last_data
            /\ last_data' = dataAtStart' ]_vars

\* C8 witness: an update that started with one payload stored another.
C8_Witness ==
    /\ pc = "Idle"
    /\ result = [raised |-> "-", msg |-> "ok"]
    /\ dataAtStart = SampleBody
    /\ resp.body = NoDcBody
    /\ last_data = NoDcBody
    /\ data = NoDcBody

\* C9: for every request, since = until - time_window_hours, also between the
\* formatted historyFrom and historyUntil, and historyFrom is strictly earlier
\* than historyUntil.
C9_Window ==
    req # NoReq =>
        /\ req.since = req.until - time_window_hours * SecondsPerHour * TicksPerSecond
        /\ InstantOf(req.historyFrom) =
                InstantOf(req.historyUntil) - time_window_hours * SecondsPerHour
        /\ InstantOf(req.historyFrom) < InstantOf(req.historyUntil)

Abs(x) == IF x < 0 THEN 0 - x ELSE x

\* The readings of payload d.
ReadingsOf(d) == UNION {Range(d.days[i].v) : i \in DOMAIN d.days}

\* C10: when the three sensors have read numbers from the stored payload, net
\* is consumption minus injection to within one thousandth, and no reading is
\* added to both the consumption and the injection total.
C10_NetIsDifference ==
    /\ (cons_state.tag = "num" /\ inj_state.tag = "num" /\ net_state.tag = "num") =>
            Abs(net_state.val - (cons_state.val - inj_state.val)) <= 10
    /\ \A r \in ReadingsOf(data) :
            ~(ConsumptionTerm(r).cons # 0 /\ InjectionTerm(r).inj # 0)

SensorValues == {cons_state, inj_state, net_state} \ {Unread}

AllRead == cons_state # Unread /\ inj_state # Unread /\ net_state # Unread

\* Every element of d is a day-bucket and every entry of a day-bucket is a
\* reading with a number for its value.
WellFormed(d) ==
    /\ d.kind = "list"
    /\ Len(d.days) > 0
    /\ \A i \in DOMAIN d.days :
        /\ d.days[i].kind \in {"dict", "nov"}
        /\ \A r \in Range(d.days[i].v) : r.kind = "dict" /\ r.vk = "num"

\* C11: without a stored payload, or with an empty one, the sensors give None,
\* never 0; with a non-empty payload whose readings add nothing (no readings,
\* values of zero, other category codes) they give the number 0.
C11_UnsetOrZero ==
    /\ (data.kind = "None" \/ Len(data.days) = 0) => SensorValues \subseteq {NoneValue}
    /\ (/\ WellFormed(data)
        /\ \A r \in ReadingsOf(data) : r.n = 0 \/ r.dc \notin {1, 2, DcMissing})
            => SensorValues \subseteq {Number(0)}

\* C11 witness: the three sensors read 0 from a payload of zero values.
C11_Witness ==
    /\ data = ZeroBody
    /\ cons_state = Number(0) /\ inj_state = Number(0) /\ net_state = Number(0)

RECURSIVE CodeSumDay(_, _, _)
\* The sum of the values with category code `code` among the first k readings.
CodeSumDay(rs, code, k) ==
    IF k = 0 THEN 0
    ELSE (IF rs[k].dc = code THEN rs[k].n ELSE 0) + CodeSumDay(rs, code, k - 1)

RECURSIVE CodeSum(_, _, _)
\* The same over the first k day-buckets.
CodeSum(ds, code, k) ==
    IF k = 0 THEN 0
    ELSE CodeSumDay(ds[k].v, code, Len(ds[k].v)) + CodeSum(ds, code, k - 1)

Total(d, code) == CodeSum(d.days, code, Len(d.days))

C20_OneFailedTick ==
    [][ /\ (pc = "Idle" /\ EndedOn401) => pc' = "Acquiring"
        /\ (pc = "Acquiring" /\ EndedOn401 /\ acquired'.exc = "-" /\ acquired'.token # 0) =>
            /\ pc' = "Fetching"
            /\ bearer_token' = acquired'.token
            /\ req'.Authorization = acquired'.token
            /\ log' = <<"acquire", "request">>
        /\ (/\ EndedOn401 /\ log = <<"acquire", "request">>
            /\ Received({200}) /\ resp'.json) =>
            /\ pc' = "Idle"
            /\ result' = [raised |-> "-", msg |-> "ok"]
            /\ last_data' = resp'.body
            /\ log' = log ]_vars

\* C20 witness: the update after a 401 has acquired a token and sent it.
C20_Witness ==
    /\ pc = "Fetching"
    /\ EndedOn401
    /\ log = <<"acquire", "request">>
    /\ acquired.token # 0
    /\ req.Authorization = acquired.token
    /\ bearer_token = acquired.token

\* C14: _fetch_bearer_token_sync never returns with the browser session it
\* opened still open, whichever step ended the call.
C14_SessionClosed == fpc = "returned" => session # "open"

C14_Witness ==
    /\ fpc = "returned"
    /\ session = "closed"
    /\ ~login_ok
    /\ fret = 0

IsApiBearer(r) == r.api /\ r.auth > 0

\* C18: a token is returned only after the login wait succeeded, it is the
\* Authorization header of the first captured request in capture order with an
\* API URL and a Bearer header, and the call returns None when the wait failed
\* or no captured request is of that kind.
C18_FirstBearer ==
    fpc = "returned" =>
        /\ fret # 0 =>
              /\ login_ok
              /\ \E i \in DOMAIN captured :
                    /\ IsApiBearer(captured[i])
                    /\ \A j \in 1..(i - 1) : ~IsApiBearer(captured[j])
                    /\ fret = captured[i].auth
        /\ (~login_ok \/ \A i \in DOMAIN captured : ~IsApiBearer(captured[i])) => fret = 0

C18_Witness ==
    /\ fpc = "returned"
    /\ fret = 1
    /\ Len(captured) = 3
    /\ captured[1].bad
    /\ captured[2].auth = 1
    /\ captured[3].auth = 2

EntryTextKeys == DOMAIN entry \ {"time_window_hours"}

\* C13: the configuration entry never holds a token: it has no bearer_token
\* field and none of its fields is the Authorization header of a token that
\* the flow or the coordinator can obtain; the coordinator's cache is the only
\* place a token is kept.
C13_TokenNotPersisted ==
    entry # NoEntry =>
        /\ "bearer_token" \notin DOMAIN entry
        /\ \A k \in EntryTextKeys : \A t \in Tokens : entry[k] # AuthHeader(t)

C13_Witness ==
    /\ entry # NoEntry
    /\ setup_state = "loaded"
    /\ bearer_token # 0
    /\ pc = "Idle"

SubmissionEnded == flow_input # NoInput /\ flow_step \in {"form", "created"}

C16_LoopNotBlocked == AcquisitionsRunning # {} => ENABLED OtherWork

C16_Witness ==
    /\ other_work.during = {"coordinator", "flow"}
    /\ pc = "Acquiring"

\* C17: unloading the entry leaves no cycle in flight (the executor job with
\* its browser session and the HTTP request are ended by the unload), and once
\* the entry is unloaded the coordinator sets no token and issues no request.
C17_TeardownEndsCycle ==
    [][/\ setup_state' = "unloaded" => pc' = "Idle"
       /\ setup_state = "unloaded" => bearer_token' = bearer_token /\ req' = req]_vars

MissingOrEmpty(v) == v \in {NoneStr, ""}

\* C22: an update that starts with an empty token cache and a missing or empty
\* username or password fails in that step: no executor job is started, no
\* HTTP request is issued and the cache stays empty.
C22_MissingCredentials ==
    [][ (/\ pc = "Idle"
         /\ bearer_token = 0
         /\ MissingOrEmpty(username) \/ MissingOrEmpty(password)) =>
            /\ pc' = "Idle"
            /\ result' = [raised |-> "UpdateFailed", msg |-> "no_credentials"]
            /\ log' = <<>>
            /\ acquired' = NoAcquired
            /\ req' = req
            /\ bearer_token' = 0 ]_vars

C22_Witness ==
    /\ pc = "Idle"
    /\ result = [raised |-> "UpdateFailed", msg |-> "no_credentials"]
    /\ username = "user"
    /\ password = ""
    /\ log = <<>>
    /\ req = NoReq
    /\ bearer_token = 0

\* C23: for every stored payload the three sensors agree on whether there is
\* a value: consumption, injection and net are all None or all numbers.
C23_SameAvailability ==
    AllRead =>
        \/ cons_state.tag = "None" /\ inj_state.tag = "None" /\ net_state.tag = "None"
        \/ cons_state.tag = "num" /\ inj_state.tag = "num" /\ net_state.tag = "num"

TickEnded == pc = "Idle" /\ result.msg # "-" /\ result.raised \in {"-", "UpdateFailed"}

\* C21: an update that has started ends, as a success or as UpdateFailed, with
\* the coordinator idle again; when the login wait never sees the logged-in
\* location the acquisition fails and the update ends as failed.
C21_TickEnds ==
    /\ (pc # "Idle") ~> TickEnded
    /\ (pc = "Acquiring" /\ blocked = "login") ~>
            (pc = "Idle" /\ result = [raised |-> "UpdateFailed", msg |-> "no_token"])

C21_Witness ==
    /\ TickEnded
    /\ blocked = "login"
    /\ timer = [stage |-> "login", left |-> 0]
    /\ fpc = "returned"
    /\ session = "closed"
    /\ ~login_ok
    /\ result = [raised |-> "UpdateFailed", msg |-> "no_token"]

====
